---------------------------- MODULE Spec2Model ----------------------------
(***************************************************************************)
(* A model of pocket_gis: the SQLite cache of NYC crashes with its R*Tree  *)
(* index (db.py), the Flask handlers that refresh and query it (api.py),   *)
(* the nearest-road assignment and per-road summary (analysis.py) and the  *)
(* k-means hotspot clusterer (nyc.py).                                     *)
(*                                                                         *)
(* Numbers.  Projected coordinates are integers in "fine units" (the       *)
(* float64 resolution of the program).  Text written by to_wkt is rounded  *)
(* to the WktGrid, R*Tree coordinates (32-bit floats) are rounded outward  *)
(* to the coarser RtreeGrid.  Per-km rates and risk scores are integers in *)
(* thousandths.  Dates are day numbers; a date text is a record.           *)
(***************************************************************************)
EXTENDS Integers, Sequences, FiniteSets, TLC

VARIABLES
    nyc_crashes,        \* table nyc_crashes: crash_id -> row            (db.py:15)
    rtree_nyc_crashes,  \* table rtree_nyc_crashes: crash_id -> box      (db.py:22)
    pc,                 \* per request thread: where its handler stands
    req,                \* per request thread: the request's arguments
    gdf,                \* per request thread: the frame built by a refresh
    rows,               \* per request thread: rows fetched by its SELECT
    hits,               \* per request thread: rows that passed the exact test
    resp,               \* per request thread: the response sent
    nreq,               \* requests served so far (bounded by MaxReq)
    legit,              \* history: the stores an atomic refresh could show now
    chain,              \* history: stores of the refreshes since the last quiet moment
    roads,              \* analysis input: road rows
    crashes,            \* analysis input: crash rows
    cfg,                \* analysis input: AnalysisConfig.search_radius
    assign,             \* nearest_road's output (or a hand-made assignment frame)
    summary,            \* road_summary's output
    apc,                \* position of the analysis pipeline
    kin,                \* k-means input: [pts, k]
    centroids,          \* k-means: current centroids
    labels,             \* k-means: labels of the last round
    round,              \* k-means: rounds run
    kout,               \* k-means: output frame
    kpc                 \* k-means: position

storeVars == <<nyc_crashes, rtree_nyc_crashes>>
webVars == <<pc, req, gdf, rows, hits, resp, nreq, legit, chain>>
analysisVars == <<roads, crashes, cfg, assign, summary, apc>>
kmeansVars == <<kin, centroids, labels, round, kout, kpc>>
vars == <<storeVars, webVars, analysisVars, kmeansVars>>

-----------------------------------------------------------------------------
(* Bounds of the model *)

MaxBatch == 2
MaxReq == 3

-----------------------------------------------------------------------------
(* Small helpers *)

Min(a, b) == IF a <= b THEN a ELSE b
Max(a, b) == IF a >= b THEN a ELSE b
Abs(a) == IF a >= 0 THEN a ELSE -a
Range(s) == {s[i] : i \in 1..Len(s)}

RECURSIVE SeqsUpTo(_, _)
SeqsUpTo(S, n) ==
    IF n = 0 THEN {<<>>}
    ELSE LET shorter == SeqsUpTo(S, n - 1)
         IN shorter \cup {Append(s, e) : s \in {t \in shorter : Len(t) = n - 1}, e \in S}

FilterSeq(s, Keep(_)) == SelectSeq(s, Keep)

-----------------------------------------------------------------------------
(* Number formats *)

\* shapely's to_wkt keeps 6 decimals: one WktGrid step of the model
WktGrid == 2
\* the R*Tree stores 32-bit floats: one RtreeGrid step of the model
RtreeGrid == 4

\* to_wkt: round to the nearest WktGrid step
WktRound(v) == ((v + (WktGrid \div 2)) \div WktGrid) * WktGrid

\* rtree: a lower bound is rounded down, an upper bound is rounded up
RtreeValueDown(v) == (v \div RtreeGrid) * RtreeGrid
RtreeValueUp(v) == -(((-v) \div RtreeGrid) * RtreeGrid)

\* str() of a crash_date cell: pd.NA is not None, so it is stored as "<NA>"
NA == [kind |-> "<NA>", day |-> 0]
IsoFormat(d) == [kind |-> "iso", day |-> d]


-----------------------------------------------------------------------------
(* The external feed and to_geodataframe (nyc.py) *)

\* datetime.now(UTC).date() as a day number, and the trailing window
Today == 40
WindowDays == 30

\* nyc.py:31,65: the feed's latitude/longitude box (degrees of the model)
LonMin == 1
LonMax == 6
LatMin == 1
LatMax == 6

\* EPSG:4326 -> EPSG:3857 (pyproj), abstracted to a monotone scaling
UnitsPerDegree == 3
Transform(lon, lat) == <<lon * UnitsPerDegree, lat * UnitsPerDegree>>

\* collision_id that pd.to_numeric cannot read
NoId == -1

DfRow(cid, sev, hr, d, lon, lat) ==
    [collision_id |-> cid, severity |-> sev, hour |-> hr, crash_date |-> d,
     longitude |-> lon, latitude |-> lat]

\* rows the feed may return (severity 1..5 and hour 0..23 are set by the fetch)
FeedRows ==
    { DfRow(1, 3, 8, IsoFormat(Today), 3, 4),
      DfRow(1, 5, 17, IsoFormat(Today - 29), 5, 5),
      DfRow(2, 1, 8, NA, 4, 3),
      DfRow(NoId, 2, 8, IsoFormat(Today - 30), 2, 1),
      DfRow(3, 4, 8, IsoFormat(Today), 4, 7) }

\* the rows of the feed while two threads refresh: crash 1 at two places, crash 2
RefreshFeed == {r \in FeedRows : r.collision_id \in {1, 2}}

\* fetch_nyc_crashes_one_month(limit): at most limit rows
fetch_nyc_crashes_one_month(feed, limit) ==
    {df \in SeqsUpTo(feed, MaxBatch) : Len(df) <= limit}

InBounds(r) ==
    /\ r.latitude >= LatMin /\ r.latitude <= LatMax
    /\ r.longitude >= LonMin /\ r.longitude <= LonMax

GdfRow(r) ==
    LET xy == Transform(r.longitude, r.latitude)
    IN [crash_id |-> IF r.collision_id = NoId THEN 0 ELSE r.collision_id,
        severity |-> r.severity, hour |-> r.hour, crash_date |-> r.crash_date,
        x |-> xy[1], y |-> xy[2]]

RECURSIVE MapGdfRows(_)
MapGdfRows(df) ==
    IF df = <<>> THEN <<>>
    ELSE (IF InBounds(Head(df)) THEN <<GdfRow(Head(df))>> ELSE <<>>)
         \o MapGdfRows(Tail(df))

\* to_geodataframe: an empty frame has no crash_date column
to_geodataframe(df) ==
    IF df = <<>>
    THEN [columns |-> {"crash_id", "severity", "hour", "geometry"}, data |-> <<>>]
    ELSE [columns |-> {"crash_id", "severity", "hour", "crash_date", "geometry"},
          data |-> MapGdfRows(df)]

-----------------------------------------------------------------------------
(* The store (db.py) *)

EmptyTable == [i \in {} |-> 0]
EmptyStore == [nyc_crashes |-> EmptyTable, rtree_nyc_crashes |-> EmptyTable]

\* INSERT OR REPLACE of one row, keyed by crash_id
InsertOrReplace(tbl, id, val) ==
    [i \in (DOMAIN tbl) \cup {id} |-> IF i = id THEN val ELSE tbl[i]]

\* INSERT OR IGNORE: an existing row wins
InsertOrIgnore(tbl, id, val) ==
    [i \in (DOMAIN tbl) \cup {id} |-> IF i \in DOMAIN tbl THEN tbl[i] ELSE val]

CrashRow(r) ==
    [severity |-> r.severity, hour |-> r.hour, crash_date |-> r.crash_date,
     wkt |-> [x |-> WktRound(r.x), y |-> WktRound(r.y)]]

\* geometry.bounds of a point, as the R*Tree keeps it
RtreeRow(r) ==
    [minx |-> RtreeValueDown(r.x), maxx |-> RtreeValueUp(r.x),
     miny |-> RtreeValueDown(r.y), maxy |-> RtreeValueUp(r.y)]

RECURSIVE ExecuteManyCrashes(_, _)
ExecuteManyCrashes(tbl, data) ==
    IF data = <<>> THEN tbl
    ELSE ExecuteManyCrashes(
           InsertOrReplace(tbl, Head(data).crash_id, CrashRow(Head(data))), Tail(data))

\* the index row of a crash: a later row for the same crash_id replaces the earlier
\* (RtreeInsertIgnoring: the variant in which the earlier row stays)
RtreeInsertIgnoring(tbl, r) == InsertOrIgnore(tbl, r.crash_id, RtreeRow(r))
RtreeInsert(tbl, r) == InsertOrReplace(tbl, r.crash_id, RtreeRow(r))

RECURSIVE ExecuteManyRtree(_, _)
ExecuteManyRtree(tbl, data) ==
    IF data = <<>> THEN tbl
    ELSE ExecuteManyRtree(RtreeInsert(tbl, Head(data)), Tail(data))

\* ingest_nyc_crashes raises KeyError before it writes when a column is missing
IngestRaises(g) == "crash_date" \notin g.columns

\* ingest_nyc_crashes, from the first executemany to the commit
IngestInto(store, g) ==
    [nyc_crashes |-> ExecuteManyCrashes(store.nyc_crashes, g.data),
     rtree_nyc_crashes |-> ExecuteManyRtree(store.rtree_nyc_crashes, g.data)]

\* api.py:15: NYC_BBOX_3857 = (xmin, xmax, ymin, ymax)
NycXmin == 2
NycXmax == 17
NycYmin == 8
NycYmax == 22

\* the R*Tree's overlap constraint of every SELECT
BoxOverlaps(b, xmin, xmax, ymin, ymax) ==
    /\ b.minx <= xmax /\ b.maxx >= xmin /\ b.miny <= ymax /\ b.maxy >= ymin

\* nyc_crashes c JOIN rtree_nyc_crashes r ON r.crash_id = c.crash_id
JoinRow(store, i) ==
    [crash_id |-> i,
     severity |-> store.nyc_crashes[i].severity,
     hour |-> store.nyc_crashes[i].hour,
     crash_date |-> store.nyc_crashes[i].crash_date,
     wkt |-> store.nyc_crashes[i].wkt]

Candidates(store, xmin, xmax, ymin, ymax) ==
    { JoinRow(store, i) :
        i \in { j \in (DOMAIN store.nyc_crashes) \cap (DOMAIN store.rtree_nyc_crashes) :
                  BoxOverlaps(store.rtree_nyc_crashes[j], xmin, xmax, ymin, ymax) } }


-----------------------------------------------------------------------------
(* kmeans_hotspots (nyc.py) *)

\* the fixed number of rounds (nyc.py:85)
Rounds == 10

\* a geometry cell that is None
NoGeom == [x |-> -1, y |-> -1, null |-> TRUE]
Pt(px, py) == [x |-> px, y |-> py, null |-> FALSE]

RECURSIVE Gcd(_, _)
Gcd(a, b) == IF b = 0 THEN a ELSE Gcd(b, a % b)

\* a centroid is the exact point (x/d, y/d); Centroid keeps it in lowest terms
Centroid(sx, sy, n) ==
    LET g == Gcd(Gcd(Abs(sx), Abs(sy)), n)
    IN [x |-> sx \div g, y |-> sy \div g, d |-> n \div g]

RECURSIVE SumOver(_, _)
SumOver(S, f) ==
    IF S = {} THEN 0
    ELSE LET e == CHOOSE e \in S : TRUE IN f[e] + SumOver(S \ {e}, f)

\* the squared distance of point X[j] to centroid c, as a fraction num / den
D2Num(pt, c) == (pt.x * c.d - c.x) * (pt.x * c.d - c.x) + (pt.y * c.d - c.y) * (pt.y * c.d - c.y)
D2Den(c) == c.d * c.d
D2Less(pt, c1, c2) == D2Num(pt, c1) * D2Den(c2) < D2Num(pt, c2) * D2Den(c1)

\* d2.argmin(axis=1): the first centroid at the least distance
\* (ArgMinLast: the variant that takes the last centroid at the least distance)
ArgMinLast(pt, cs) ==
    CHOOSE i \in 1..Len(cs) :
        /\ \A j \in 1..Len(cs) : ~D2Less(pt, cs[j], cs[i])
        /\ \A j \in (i + 1)..Len(cs) : D2Less(pt, cs[i], cs[j])
ArgMin(pt, cs) ==
    CHOOSE i \in 1..Len(cs) :
        /\ \A j \in 1..Len(cs) : ~D2Less(pt, cs[j], cs[i])
        /\ \A j \in 1..(i - 1) : D2Less(pt, cs[i], cs[j])

\* the assign step of a round
Assign(X, cs) == [j \in 1..Len(X) |-> ArgMin(X[j], cs)]

Members(labs, i) == {j \in 1..Len(labs) : labs[j] = i}

\* the update step of a round: a centroid without points stays where it was
Update(X, cs, labs) ==
    [i \in 1..Len(cs) |->
        LET m == Members(labs, i)
        IN IF m = {} THEN cs[i]
           ELSE Centroid(SumOver(m, [j \in m |-> X[j].x]),
                         SumOver(m, [j \in m |-> X[j].y]), Cardinality(m))]

IsNotNull(r) == ~r.geometry.null

\* crashes[crashes.geometry.notna()]
NotNa(frame) == SelectSeq(frame, IsNotNull)

Coords(frame) == [j \in 1..Len(frame) |-> frame[j].geometry]

\* rng.choice(n, size, replace=False): size distinct indices, in any order
Choices(n, size) ==
    {c \in [1..size -> 1..n] : \A a, b \in 1..size : a # b => c[a] # c[b]}

\* len(X) points and k: rng.choice raises for a negative size, argmin for no centroid
KMeansRaises(frame, k) == NotNa(frame) # <<>> /\ Min(k, Len(NotNa(frame))) <= 0

\* size=min(k, len(X)) (NumCentroidsAllPoints: the variant that draws every point)
NumCentroidsAllPoints(k, n) == n
NumCentroids(k, n) == Min(k, n)

InitCentroids(frame, k) ==
    LET X == Coords(NotNa(frame))
    IN {[i \in 1..NumCentroids(k, Len(X)) |-> Centroid(X[c[i]].x, X[c[i]].y, 1)] :
            c \in Choices(Len(X), NumCentroids(k, Len(X)))}

\* the mean severity of a cluster, a fraction in lowest terms
SevMean(frame, m) ==
    LET t == SumOver(m, [j \in m |-> frame[j].severity])
        g == Gcd(t, Cardinality(m))
    IN [num |-> t \div g, den |-> Cardinality(m) \div g]

\* the stats rows in centroid order, clusters without members skipped
RECURSIVE StatsFrom(_, _, _, _)
StatsFrom(frame, cs, labs, i) ==
    IF i > Len(cs) THEN <<>>
    ELSE LET m == Members(labs, i)
         IN (IF m = {} THEN <<>>
             ELSE <<[cluster |-> i - 1, n |-> Cardinality(m),
                     severity_mean |-> SevMean(frame, m), geometry |-> cs[i]]>>)
            \o StatsFrom(frame, cs, labs, i + 1)

\* sort_values("n", ascending=False) sorts with numpy's quicksort, which is not
\* stable: rows of equal n come out in any order
Reorder(stats, perm) == [i \in 1..Len(stats) |-> stats[perm[i]]]
IsSortedByN(stats) == \A i \in 1..(Len(stats) - 1) : stats[i].n >= stats[i + 1].n
SortByN(stats) ==
    {q \in {Reorder(stats, perm) : perm \in Permutations(1..Len(stats))} : IsSortedByN(q)}

RECURSIVE Iterate(_, _, _)
Iterate(X, cs, n) ==
    IF n = 0 THEN cs ELSE Iterate(X, Update(X, cs, Assign(X, cs)), n - 1)

\* kmeans_hotspots from given initial centroids to the sorted frames it may return
KMeansFrom(frame, cs0) ==
    LET kept == NotNa(frame)
        X == Coords(kept)
        before == Iterate(X, cs0, Rounds - 1)
        labs == Assign(X, before)
        cs == Update(X, before, labs)
    IN SortByN(StatsFrom(kept, cs, labs, 1))

\* every frame kmeans_hotspots may return (one per draw of the initial centroids)
kmeans_hotspots(frame, k) ==
    IF frame = <<>> \/ NotNa(frame) = <<>> THEN {<<>>}
    ELSE UNION {KMeansFrom(frame, cs0) : cs0 \in InitCentroids(frame, k)}


-----------------------------------------------------------------------------
(* Requests (api.py) *)

Procs == {1, 2}

\* a query-string argument: absent, a number, or text that does not parse
Absent == [t |-> "absent", v |-> 0]
Bad == [t |-> "bad", v |-> 0]
Num(n) == [t |-> "num", v |-> n]

\* the bbox argument: "minlon,minlat,maxlon,maxlat"
NoBbox == [t |-> "absent", v |-> <<0, 0, 0, 0>>]
BadBbox == [t |-> "bad", v |-> <<0, 0, 0, 0>>]
Bbox(a, b, c, d) == [t |-> "num", v |-> <<a, b, c, d>>]

\* api.py:35, api.py:76, api.py:166
DefaultLimit == 5000
DefaultK == 20
DefaultRadius == 250

\* int(request.args.get(name, default)) / float(...)
Parses(arg) == arg.t # "bad"
ValueOf(arg, default) == IF arg.t = "absent" THEN default ELSE arg.v

Request(e, refresh, hour, limit, k, mode, bbox, lon, lat, radius) ==
    [endpoint |-> e, refresh |-> refresh, hour |-> hour, limit |-> limit, k |-> k,
     mode |-> mode, bbox |-> bbox, lon |-> lon, lat |-> lat, radius_m |-> radius]

NoRequest == Request("none", FALSE, Absent, Absent, Absent, "bbox", NoBbox, Absent, Absent, Absent)
NoGdf == [columns |-> {}, data |-> <<>>]
NoResp == [status |-> 0, error |-> "", body |-> <<>>]
Error(code, msg) == [status |-> code, error |-> msg, body |-> <<>>]
Ok(body) == [status |-> 200, error |-> "", body |-> body]

Store == [nyc_crashes |-> nyc_crashes, rtree_nyc_crashes |-> rtree_nyc_crashes]

\* another thread stands between the start of its refresh and the end of it
OthersRefreshing(p) == \E q \in Procs \ {p} : pc[q] \in {"fetched", "cleared"}

\* the query shape of a window request, built in EPSG:3857
BoxFilter(b) ==
    LET p1 == Transform(b[1], b[2])
        p2 == Transform(b[3], b[4])
    IN [kind |-> "box", xmin |-> Min(p1[1], p2[1]), xmax |-> Max(p1[1], p2[1]),
        ymin |-> Min(p1[2], p2[2]), ymax |-> Max(p1[2], p2[2]),
        cx |-> 0, cy |-> 0, r |-> 0]

PointFilter(lon, lat, r) ==
    LET c == Transform(lon, lat)
    IN [kind |-> "buffer", xmin |-> c[1] - r, xmax |-> c[1] + r,
        ymin |-> c[2] - r, ymax |-> c[2] + r, cx |-> c[1], cy |-> c[2], r |-> r]

\* the try block of nyc_timeseries / nyc_summary: which requests get a 400
ShapeError(r) ==
    IF r.mode = "bbox"
    THEN IF r.bbox.t = "absent" THEN "bbox required"
         ELSE IF r.bbox.t = "bad" THEN "invalid geometry parameters" ELSE ""
    ELSE IF r.mode = "point"
    THEN IF r.lon.t # "num" \/ r.lat.t # "num" \/ ~Parses(r.radius_m)
         THEN "invalid geometry parameters" ELSE ""
    ELSE "invalid mode"

GeomFilter(r) ==
    IF r.mode = "bbox" THEN BoxFilter(r.bbox.v)
    ELSE PointFilter(r.lon.v, r.lat.v, ValueOf(r.radius_m, DefaultRadius))

\* geom_filter.intersects(point).  box(): closed rectangle.  Point.buffer(r): the
\* 64-gon inscribed in the circle, empty for r <= 0; on the model's grid it holds the
\* points strictly inside the circle and the axis points on it
Intersects(f, g) ==
    IF f.kind = "box"
    THEN f.xmin <= g.x /\ g.x <= f.xmax /\ f.ymin <= g.y /\ g.y <= f.ymax
    ELSE LET dx == g.x - f.cx
             dy == g.y - f.cy
         IN /\ f.r > 0
            /\ \/ dx * dx + dy * dy < f.r * f.r
               \/ dx * dx + dy * dy = f.r * f.r /\ (dx = 0 \/ dy = 0)

\* the rows a SELECT ... LIMIT n may return: any n of the matching rows
Limited(matching, n) ==
    IF n < 0 \/ n >= Cardinality(matching) THEN {matching}
    ELSE {S \in SUBSET matching : Cardinality(S) = n}

\* the SELECT of nyc_crashes / nyc_hotspots on a store
SelectClipped(store, r) ==
    LET inbox == Candidates(store, NycXmin, NycXmax, NycYmin, NycYmax)
        hit == IF r.hour.t = "absent" THEN inbox
               ELSE {c \in inbox : c.hour = r.hour.v}
    IN Limited(hit, ValueOf(r.limit, DefaultLimit))

\* the SELECT of nyc_timeseries / nyc_summary on a store
SelectWindow(store, r) ==
    LET f == GeomFilter(r) IN Candidates(store, f.xmin, f.xmax, f.ymin, f.ymax)

\* rows in the order the cursor yields them (by crash_id)
RECURSIVE RowSeq(_)
RowSeq(S) ==
    IF S = {} THEN <<>>
    ELSE LET first == CHOOSE c \in S : \A d \in S : c.crash_id <= d.crash_id
         IN <<first>> \o RowSeq(S \ {first})


-----------------------------------------------------------------------------
(* Responses (api.py) *)

\* EPSG:3857 -> EPSG:4326, the inverse of Transform, as a fraction
ToWgs84(v, d) == [num |-> v, den |-> d * UnitsPerDegree]

\* _rows_to_features
RowsToFeatures(rs) ==
    [i \in 1..Len(rs) |->
        [properties |-> [crash_id |-> rs[i].crash_id, severity |-> rs[i].severity,
                         hour |-> rs[i].hour, crash_date |-> rs[i].crash_date],
         geometry |-> <<ToWgs84(rs[i].wkt.x, 1), ToWgs84(rs[i].wkt.y, 1)>>]]

\* the frame nyc_hotspots builds from its rows
HotspotFrame(rs) ==
    [i \in 1..Len(rs) |->
        [severity |-> rs[i].severity, hour |-> rs[i].hour,
         geometry |-> Pt(rs[i].wkt.x, rs[i].wkt.y)]]

\* _gdf_to_fc
GdfToFc(hs) ==
    [i \in 1..Len(hs) |->
        [properties |-> [cluster |-> hs[i].cluster, n |-> hs[i].n,
                         severity_mean |-> hs[i].severity_mean],
         geometry |-> <<ToWgs84(hs[i].geometry.x, hs[i].geometry.d),
                        ToWgs84(hs[i].geometry.y, hs[i].geometry.d)>>]]

\* phase two of a window query: the exact test on the stored geometry
PassingAll(rs, f) == rs
Passing(rs, f) == {c \in rs : Intersects(f, c.wkt)}

\* nyc_timeseries: 30 daily buckets ending today
\* (WindowStartEarly: the variant that starts a day sooner)
WindowStartEarly == Today - WindowDays
WindowStart == Today - (WindowDays - 1)
DayIndex == {IsoFormat(WindowStart + i) : i \in 0..(WindowDays - 1)}
Series(dates) ==
    [i \in 1..WindowDays |->
        [date |-> IsoFormat(WindowStart + i - 1),
         count |-> Cardinality({c \in dates : c.crash_date = IsoFormat(WindowStart + i - 1)})]]
TimeseriesBody(r, passing) ==
    [mode |-> r.mode, series |-> Series(passing),
     total |-> Cardinality({c \in passing : c.crash_date \in DayIndex})]

\* round(x, 2) of the fraction num / den, in hundredths (ties to even)
Round2(num, den) ==
    LET q == (num * 100) \div den
        rem == (num * 100) % den
    IN IF 2 * rem < den THEN q
       ELSE IF 2 * rem > den THEN q + 1
       ELSE IF q % 2 = 0 THEN q ELSE q + 1

\* min() and max() of date texts: "<NA>" sorts after every ISO date
None == [kind |-> "None", day |-> 0]
TextLeq(a, b) == b.kind = "<NA>" \/ (a.kind = "iso" /\ b.kind = "iso" /\ a.day <= b.day)
MinText(D) == IF D = {} THEN None ELSE CHOOSE a \in D : \A b \in D : TextLeq(a, b)
MaxText(D) == IF D = {} THEN None ELSE CHOOSE a \in D : \A b \in D : TextLeq(b, a)

\* nyc_summary: the histogram starts with the buckets 1..5
\* (HistOfPresent: the variant without the five buckets to start from)
HistOfPresent(passing) ==
    [sev \in {c.severity : c \in passing} |->
        Cardinality({c \in passing : c.severity = sev})]
Hist(passing) ==
    [sev \in (1..5) \cup {c.severity : c \in passing} |->
        Cardinality({c \in passing : c.severity = sev})]
SummaryBody(passing) ==
    LET total == Cardinality(passing)
        sev_sum == SumOver(passing, [c \in passing |-> c.severity])
    IN [severity_hist |-> Hist(passing), total |-> total,
        avg_severity |-> IF total # 0 THEN Round2(sev_sum, total) ELSE 0,
        min_date |-> MinText({c.crash_date : c \in passing}),
        max_date |-> MaxText({c.crash_date : c \in passing})]


-----------------------------------------------------------------------------
(* The handlers, one action per step that other threads can observe *)

StoreInit == nyc_crashes = EmptyTable /\ rtree_nyc_crashes = EmptyTable

WebInit ==
    /\ pc = [p \in Procs |-> "idle"]
    /\ req = [p \in Procs |-> NoRequest]
    /\ gdf = [p \in Procs |-> NoGdf]
    /\ rows = [p \in Procs |-> {}]
    /\ hits = [p \in Procs |-> {}]
    /\ resp = [p \in Procs |-> NoResp]
    /\ nreq = 0
    /\ legit = {EmptyStore}
    /\ chain = {}

AnalysisOff ==
    /\ roads = <<>> /\ crashes = <<>> /\ cfg = 0
    /\ assign = <<>> /\ summary = <<>> /\ apc = "off"

KMeansOff ==
    /\ kin = [pts |-> <<>>, k |-> 0] /\ centroids = <<>> /\ labels = <<>>
    /\ round = 0 /\ kout = <<>> /\ kpc = "off"

\* a request arrives at a free thread; r is what its query string holds
Accept(p, r, bad) ==
    /\ pc[p] \in {"idle", "done"}
    /\ nreq < MaxReq
    /\ nreq' = nreq + 1
    /\ req' = [req EXCEPT ![p] = r]
    /\ gdf' = [gdf EXCEPT ![p] = NoGdf]
    /\ rows' = [rows EXCEPT ![p] = {}]
    /\ hits' = [hits EXCEPT ![p] = {}]
    /\ IF bad # ""
       THEN /\ pc' = [pc EXCEPT ![p] = "done"]
            /\ resp' = [resp EXCEPT ![p] = Error(IF bad = "ValueError" THEN 500 ELSE 400, bad)]
       ELSE /\ pc' = [pc EXCEPT ![p] = IF r.refresh THEN "refresh" ELSE "ready"]
            /\ resp' = [resp EXCEPT ![p] = NoResp]
    /\ UNCHANGED <<storeVars, legit, chain, analysisVars, kmeansVars>>

\* nyc_crashes up to "with get_con()": limit = int(...)
NycCrashes(p, R) ==
    \E r \in R :
        /\ r.endpoint = "crashes"
        /\ Accept(p, r, IF Parses(r.limit) THEN "" ELSE "ValueError")

\* nyc_hotspots up to "with get_con()": k = int(...), limit = int(...)
NycHotspots(p, R) ==
    \E r \in R :
        /\ r.endpoint = "hotspots"
        /\ Accept(p, r, IF Parses(r.k) /\ Parses(r.limit) THEN "" ELSE "ValueError")

\* nyc_timeseries up to "with get_con()": the query shape is built or refused
NycTimeseries(p, R) ==
    \E r \in R :
        /\ r.endpoint = "timeseries"
        /\ Accept(p, r, ShapeError(r))

\* nyc_summary up to "with get_con()"
NycSummary(p, R) ==
    \E r \in R :
        /\ r.endpoint = "summary"
        /\ Accept(p, r, ShapeError(r))

\* refresh, step 1: the feed answers and to_geodataframe builds the frame
Fetch(p, feed) ==
    /\ pc[p] = "refresh"
    /\ \E df \in fetch_nyc_crashes_one_month(feed, ValueOf(req[p].limit, DefaultLimit)) :
         LET g == to_geodataframe(df)
             new == IF IngestRaises(g) THEN {} ELSE {IngestInto(EmptyStore, g)}
         IN /\ gdf' = [gdf EXCEPT ![p] = g]
            /\ legit' = legit \cup new
            /\ chain' = chain \cup new
    /\ pc' = [pc EXCEPT ![p] = "fetched"]
    /\ UNCHANGED <<storeVars, req, rows, hits, resp, nreq, analysisVars, kmeansVars>>

\* refresh, step 1 when the feed fails: raise_for_status or a timeout
FetchFails(p) ==
    /\ pc[p] = "refresh"
    /\ pc' = [pc EXCEPT ![p] = "done"]
    /\ resp' = [resp EXCEPT ![p] = Error(500, "HTTPError")]
    /\ UNCHANGED <<storeVars, req, gdf, rows, hits, nreq, legit, chain, analysisVars, kmeansVars>>

\* refresh, step 2: clear_nyc_cache, two DELETEs and a commit
clear_nyc_cache(p) ==
    /\ pc[p] = "fetched"
    /\ nyc_crashes' = EmptyTable
    /\ rtree_nyc_crashes' = EmptyTable
    /\ pc' = [pc EXCEPT ![p] = "cleared"]
    /\ UNCHANGED <<req, gdf, rows, hits, resp, nreq, legit, chain, analysisVars, kmeansVars>>

\* the refresh of p ends: when no other is under way, only the stores of the
\* refreshes of this busy period are left to be seen
EndRefresh(p) ==
    IF OthersRefreshing(p) \/ chain = {}
    THEN UNCHANGED <<legit, chain>>
    ELSE legit' = chain /\ chain' = {}

\* refresh, step 3: ingest_nyc_crashes, two executemany and a commit, or KeyError
ingest_nyc_crashes(p) ==
    /\ pc[p] = "cleared"
    /\ IF IngestRaises(gdf[p])
       THEN /\ UNCHANGED storeVars
            /\ pc' = [pc EXCEPT ![p] = "done"]
            /\ resp' = [resp EXCEPT ![p] = Error(500, "KeyError")]
            /\ gdf' = [gdf EXCEPT ![p] = NoGdf]
       ELSE /\ nyc_crashes' = IngestInto(Store, gdf[p]).nyc_crashes
            /\ rtree_nyc_crashes' = IngestInto(Store, gdf[p]).rtree_nyc_crashes
            /\ pc' = [pc EXCEPT ![p] = "ready"]
            /\ UNCHANGED <<resp, gdf>>
    /\ EndRefresh(p)
    /\ UNCHANGED <<req, rows, hits, nreq, analysisVars, kmeansVars>>

\* the SELECT of nyc_crashes / nyc_hotspots; int(hour) is evaluated here
SelectCrashes(p) ==
    /\ pc[p] = "ready"
    /\ req[p].endpoint \in {"crashes", "hotspots"}
    /\ IF ~Parses(req[p].hour)
       THEN /\ pc' = [pc EXCEPT ![p] = "done"]
            /\ resp' = [resp EXCEPT ![p] = Error(500, "ValueError")]
            /\ UNCHANGED rows
       ELSE /\ \E got \in SelectClipped(Store, req[p]) : rows' = [rows EXCEPT ![p] = got]
            /\ pc' = [pc EXCEPT ![p] = "queried"]
            /\ UNCHANGED resp
    /\ UNCHANGED <<storeVars, req, gdf, hits, nreq, legit, chain, analysisVars, kmeansVars>>

\* the SELECT of nyc_timeseries / nyc_summary: the R*Tree candidates
SelectCandidates(p) ==
    /\ pc[p] = "ready"
    /\ req[p].endpoint \in {"timeseries", "summary"}
    /\ rows' = [rows EXCEPT ![p] = SelectWindow(Store, req[p])]
    /\ pc' = [pc EXCEPT ![p] = "queried"]
    /\ UNCHANGED <<storeVars, req, gdf, hits, resp, nreq, legit, chain, analysisVars, kmeansVars>>

\* phase two of nyc_timeseries / nyc_summary: the loop over the candidate rows
ExactFilter(p) ==
    /\ pc[p] = "queried"
    /\ req[p].endpoint \in {"timeseries", "summary"}
    /\ hits' = [hits EXCEPT ![p] = Passing(rows[p], GeomFilter(req[p]))]
    /\ pc' = [pc EXCEPT ![p] = "filtered"]
    /\ UNCHANGED <<storeVars, req, gdf, rows, resp, nreq, legit, chain, analysisVars, kmeansVars>>

\* the handler returns: its locals are gone, the response is sent
Reply(p, at, r) ==
    /\ pc[p] = at
    /\ pc' = [pc EXCEPT ![p] = "done"]
    /\ resp' = [resp EXCEPT ![p] = r]
    /\ gdf' = [gdf EXCEPT ![p] = NoGdf]
    /\ rows' = [rows EXCEPT ![p] = {}]
    /\ UNCHANGED <<storeVars, req, hits, nreq, legit, chain, analysisVars, kmeansVars>>

\* nyc_crashes after the SELECT
NycCrashesReply(p) ==
    /\ req[p].endpoint = "crashes"
    /\ Reply(p, "queried", Ok(RowsToFeatures(RowSeq(rows[p]))))

\* nyc_hotspots after the SELECT: the frame, kmeans_hotspots, _gdf_to_fc
NycHotspotsReply(p) ==
    /\ req[p].endpoint = "hotspots"
    /\ LET frame == HotspotFrame(RowSeq(rows[p]))
           k == ValueOf(req[p].k, DefaultK)
       IN IF KMeansRaises(frame, k)
          THEN Reply(p, "queried", Error(500, "ValueError"))
          ELSE \E hs \in kmeans_hotspots(frame, k) : Reply(p, "queried", Ok(GdfToFc(hs)))

\* nyc_timeseries after the exact test: the daily buckets
NycTimeseriesReply(p) ==
    /\ req[p].endpoint = "timeseries"
    /\ Reply(p, "filtered", Ok(TimeseriesBody(req[p], hits[p])))

\* nyc_summary after the exact test: the histogram and the averages
NycSummaryReply(p) ==
    /\ req[p].endpoint = "summary"
    /\ Reply(p, "filtered", Ok(SummaryBody(hits[p])))

-----------------------------------------------------------------------------
(* Refreshes and reads of two request threads *)

RefreshRequests ==
    {Request(e, f, Absent, Absent, Num(1), "bbox", NoBbox, Absent, Absent, Absent) :
        e \in {"crashes", "hotspots"}, f \in BOOLEAN}

InitRefresh == StoreInit /\ WebInit /\ AnalysisOff /\ KMeansOff

NextRefresh ==
    \E p \in Procs :
        \/ NycCrashes(p, RefreshRequests)
        \/ NycHotspots(p, RefreshRequests)
        \/ Fetch(p, RefreshFeed)
        \/ FetchFails(p)
        \/ clear_nyc_cache(p)
        \/ ingest_nyc_crashes(p)
        \/ SelectCrashes(p)
        \/ NycCrashesReply(p)
        \/ NycHotspotsReply(p)

SpecRefresh == InitRefresh /\ [][NextRefresh]_vars


-----------------------------------------------------------------------------
(* One request thread serving every endpoint, with good and bad arguments *)

WindowProcs == {1}

CrashesRequests ==
    {Request("crashes", f, h, l, Absent, "bbox", NoBbox, Absent, Absent, Absent) :
        f \in BOOLEAN, h \in {Absent, Num(8), Bad}, l \in {Absent, Bad}}

HotspotsRequests ==
    {Request("hotspots", f, Absent, l, k, "bbox", NoBbox, Absent, Absent, Absent) :
        f \in BOOLEAN, l \in {Absent, Num(1)}, k \in {Absent, Num(1), Num(0), Num(-1), Bad}}

ShapeRequests(e) ==
    {Request(e, FALSE, Absent, Absent, Absent, "bbox", b, Absent, Absent, Absent) :
        b \in {NoBbox, BadBbox, Bbox(3, 3, 5, 5), Bbox(5, 5, 3, 3)}}
    \cup
    {Request(e, FALSE, Absent, Absent, Absent, "point", NoBbox, lon, lat, r) :
        lon \in {Absent, Num(4)}, lat \in {Bad, Num(4)},
        r \in {Absent, Bad, Num(4), Num(-4)}}
    \cup
    {Request(e, FALSE, Absent, Absent, Absent, "polygon", NoBbox, Absent, Absent, Absent)}

WindowRequests ==
    CrashesRequests \cup HotspotsRequests
        \cup ShapeRequests("timeseries") \cup ShapeRequests("summary")

InitWindow == StoreInit /\ WebInit /\ AnalysisOff /\ KMeansOff

NextWindow ==
    \E p \in WindowProcs :
        \/ NycCrashes(p, WindowRequests)
        \/ NycHotspots(p, WindowRequests)
        \/ NycTimeseries(p, WindowRequests)
        \/ NycSummary(p, WindowRequests)
        \/ Fetch(p, FeedRows)
        \/ FetchFails(p)
        \/ clear_nyc_cache(p)
        \/ ingest_nyc_crashes(p)
        \/ SelectCrashes(p)
        \/ SelectCandidates(p)
        \/ ExactFilter(p)
        \/ NycCrashesReply(p)
        \/ NycHotspotsReply(p)
        \/ NycTimeseriesReply(p)
        \/ NycSummaryReply(p)

SpecWindow == InitWindow /\ [][NextWindow]_vars

-----------------------------------------------------------------------------
(* Window queries on a cache that earlier refreshes have filled *)

MaxStored == 3

\* records a cache may hold: two of one day, the first and the day before the
\* first of the window, one without a date, one outside the query boxes
StoredPool ==
    { GdfRow(DfRow(1, 5, 8, IsoFormat(Today), 4, 4)),
      GdfRow(DfRow(2, 1, 9, IsoFormat(Today), 4, 4)),
      GdfRow(DfRow(3, 2, 7, IsoFormat(Today - (WindowDays - 1)), 4, 4)),
      GdfRow(DfRow(4, 2, 7, IsoFormat(Today - WindowDays), 4, 4)),
      GdfRow(DfRow(5, 4, 23, NA, 4, 5)),
      GdfRow(DfRow(6, 3, 0, IsoFormat(Today - 1), 6, 6)) }

StoredFrames ==
    {[columns |-> {"crash_id", "severity", "hour", "crash_date", "geometry"}, data |-> d] :
        d \in SeqsUpTo(StoredPool, MaxStored)}

AggregateRequests ==
    {Request(e, FALSE, Absent, Absent, Absent, "bbox", Bbox(3, 3, 5, 5), Absent, Absent, Absent) :
        e \in {"timeseries", "summary"}}
    \cup
    {Request(e, FALSE, Absent, Absent, Absent, "point", NoBbox, Num(4), Num(4), Num(4)) :
        e \in {"timeseries", "summary"}}

InitAggregate ==
    /\ \E g \in StoredFrames :
          /\ nyc_crashes = IngestInto(EmptyStore, g).nyc_crashes
          /\ rtree_nyc_crashes = IngestInto(EmptyStore, g).rtree_nyc_crashes
    /\ WebInit /\ AnalysisOff /\ KMeansOff

NextAggregate ==
    \E p \in WindowProcs :
        \/ NycTimeseries(p, AggregateRequests)
        \/ NycSummary(p, AggregateRequests)
        \/ SelectCandidates(p)
        \/ ExactFilter(p)
        \/ NycTimeseriesReply(p)
        \/ NycSummaryReply(p)

SpecAggregate == InitAggregate /\ [][NextAggregate]_vars

-----------------------------------------------------------------------------
(* nearest_road and road_summary (analysis.py) *)

MaxRoads == 2
MaxCrashes == 3
MaxHand == 2

\* a missing cell of a frame (NaN in road_id, dist_m)
NaN == -1

\* floats of the summary, in thousandths: a number, inf or nan
Flt(v) == [kind |-> "num", v |-> v]
Inf == [kind |-> "inf", v |-> 0]
NaNFlt == [kind |-> "nan", v |-> 0]

\* a road: a two-point LineString along an axis (generate_roads), with its length_m
Road(id, xa, ya, xb, yb, len) ==
    [road_id |-> id, xa |-> xa, ya |-> ya, xb |-> xb, yb |-> yb, length_m |-> len]
Crash(id, sev, hr, px, py) ==
    [crash_id |-> id, severity |-> sev, hour |-> hr, x |-> px, y |-> py]

RoadPool ==
    { Road(1, 0, 0, 1000, 0, 1000), Road(2, 0, 100, 1000, 100, 1000),
      Road(3, 2000, 0, 2000, 0, 0), Road(4, 0, -500, 2000, -500, 2000) }
CrashPool ==
    { Crash(1, 3, 8, 500, 10), Crash(2, 4, 9, 500, 90), Crash(3, 1, 7, 9999, 9999),
      Crash(4, 2, 8, 500, 50), Crash(5, 5, 23, 2000, 10) }
RadiusPool == {10, 80}

\* sequences of distinct elements of S, of length n at most
Distinct(S, n) ==
    {q \in SeqsUpTo(S, n) : \A i, j \in 1..Len(q) : i # j => q[i] # q[j]}
\* the crashes frame: distinct crashes in the order of their ids
CrashFrames ==
    {q \in Distinct(CrashPool, MaxCrashes) :
        \A i, j \in 1..Len(q) : i < j => q[i].crash_id < q[j].crash_id}

\* the squared distance of a point to a segment that lies along an axis
Dist2(c, r) ==
    LET dx == Max(Max(Min(r.xa, r.xb) - c.x, c.x - Max(r.xa, r.xb)), 0)
        dy == Max(Max(Min(r.ya, r.yb) - c.y, c.y - Max(r.ya, r.yb)), 0)
    IN dx * dx + dy * dy

\* max_distance of sjoin_nearest: a neighbour at exactly that distance counts
\* (WithinRadiusStrict: the variant that leaves that neighbour out)
WithinRadiusStrict(d2, R) == d2 < R * R
WithinRadius(d2, R) == d2 <= R * R

AssignRow(c, id, d2) ==
    [crash_id |-> c.crash_id, severity |-> c.severity, hour |-> c.hour,
     x |-> c.x, y |-> c.y, road_id |-> id, dist_m2 |-> d2]

\* the rows sjoin_nearest(how="left") yields for one crash: a row for every road at
\* the least distance when that is within max_distance, else one row without road
RECURSIVE RowsAtDistance(_, _, _)
RowsAtDistance(c, rs, d2) ==
    IF rs = <<>> THEN <<>>
    ELSE (IF Dist2(c, Head(rs)) = d2 THEN <<AssignRow(c, Head(rs).road_id, d2)>> ELSE <<>>)
         \o RowsAtDistance(c, Tail(rs), d2)

JoinNearest(c, rs, R) ==
    IF rs = <<>> THEN <<AssignRow(c, NaN, NaN)>>
    ELSE LET least == CHOOSE d \in {Dist2(c, rs[i]) : i \in 1..Len(rs)} :
                          \A i \in 1..Len(rs) : d <= Dist2(c, rs[i])
         IN IF WithinRadius(least, R) THEN RowsAtDistance(c, rs, least)
            ELSE <<AssignRow(c, NaN, NaN)>>

RECURSIVE nearest_road(_, _, _)
nearest_road(cs, rs, R) ==
    IF cs = <<>> THEN <<>>
    ELSE JoinNearest(Head(cs), rs, R) \o nearest_road(Tail(cs), rs, R)

\* crash_assignments.dropna(subset=["road_id"])
HasRoad(a) == a.road_id # NaN
DropNa(frame) == SelectSeq(frame, HasRoad)

RowsOf(frame, id) == {i \in 1..Len(frame) : frame[i].road_id = id}

\* groupby("road_id").agg(count, sum): one row per road_id that occurs
Agg(frame) ==
    [id \in {frame[i].road_id : i \in 1..Len(frame)} |->
        [n_crashes |-> Cardinality(RowsOf(frame, id)),
         sev_sum |-> SumOver(RowsOf(frame, id), [i \in RowsOf(frame, id) |-> frame[i].severity])]]

\* n / (length_m / 1000) in floats, in thousandths
PerKm(n, length_m) ==
    IF length_m = 0 THEN (IF n = 0 THEN NaNFlt ELSE Inf)
    ELSE Flt((n * 1000 * 1000) \div length_m)

\* .replace([np.inf, -np.inf], 0)
ReplaceInf(f) == IF f.kind = "inf" THEN Flt(0) ELSE f

\* 0.6 * sev_per_km + 0.4 * crashes_per_km
\* (RiskScoreSwapped: the variant with the two weights exchanged)
RiskScoreSwapped(s, c) ==
    IF s.kind = "nan" \/ c.kind = "nan" THEN NaNFlt ELSE Flt((4 * s.v + 6 * c.v) \div 10)
RiskScore(s, c) ==
    IF s.kind = "nan" \/ c.kind = "nan" THEN NaNFlt ELSE Flt((6 * s.v + 4 * c.v) \div 10)

SummaryRow(r, n, sev) ==
    LET c == ReplaceInf(PerKm(n, r.length_m))
        sv == ReplaceInf(PerKm(sev, r.length_m))
    IN [road_id |-> r.road_id, length_m |-> r.length_m, n_crashes |-> n, sev_sum |-> sev,
        crashes_per_km |-> c, sev_per_km |-> sv, risk_score |-> RiskScore(sv, c)]

\* roads.merge(agg, on="road_id", how="inner"): roads without a group are dropped
RECURSIVE MergeInner(_, _)
MergeInner(rs, agg) ==
    IF rs = <<>> THEN <<>>
    ELSE (IF Head(rs).road_id \in DOMAIN agg
          THEN <<SummaryRow(Head(rs), agg[Head(rs).road_id].n_crashes,
                            agg[Head(rs).road_id].sev_sum)>>
          ELSE <<>>)
         \o MergeInner(Tail(rs), agg)

\* roads.merge(agg, on="road_id", how="left"), fillna(0) and the rates
RECURSIVE MergeLeft(_, _)
MergeLeft(rs, agg) ==
    IF rs = <<>> THEN <<>>
    ELSE <<IF Head(rs).road_id \in DOMAIN agg
           THEN SummaryRow(Head(rs), agg[Head(rs).road_id].n_crashes,
                           agg[Head(rs).road_id].sev_sum)
           ELSE SummaryRow(Head(rs), 0, 0)>>
         \o MergeLeft(Tail(rs), agg)

road_summary(rs, frame) == MergeLeft(rs, Agg(DropNa(frame)))

\* assignment frames made by hand: unassigned rows, rows of roads that do not exist
HandRows ==
    { AssignRow(Crash(1, 3, 8, 500, 10), 1, 100), AssignRow(Crash(2, 4, 9, 500, 90), 1, 8100),
      AssignRow(Crash(5, 5, 23, 2000, 10), 3, 100), AssignRow(Crash(3, 1, 7, 9999, 9999), NaN, NaN),
      AssignRow(Crash(4, 2, 8, 500, 50), 9, 2500) }

WebOff ==
    /\ pc = [p \in Procs |-> "off"]
    /\ req = [p \in Procs |-> NoRequest]
    /\ gdf = [p \in Procs |-> NoGdf]
    /\ rows = [p \in Procs |-> {}]
    /\ hits = [p \in Procs |-> {}]
    /\ resp = [p \in Procs |-> NoResp]
    /\ nreq = 0
    /\ legit = {EmptyStore}
    /\ chain = {}

InitAnalysis ==
    /\ StoreInit /\ WebOff /\ KMeansOff
    /\ roads \in Distinct(RoadPool, MaxRoads)
    /\ crashes \in CrashFrames
    /\ cfg \in RadiusPool
    /\ assign = <<>>
    /\ summary = <<>>
    /\ apc = "start"

\* run_pipeline.py: crash_assign = nearest_road(crashes, roads, acfg)
NearestRoad ==
    /\ apc = "start"
    /\ assign' = nearest_road(crashes, roads, cfg)
    /\ apc' = "assigned"
    /\ UNCHANGED <<roads, crashes, cfg, summary, storeVars, webVars, kmeansVars>>

\* a caller hands road_summary a frame of its own
HandAssign ==
    /\ apc = "start"
    /\ assign' \in SeqsUpTo(HandRows, MaxHand)
    /\ apc' = "handmade"
    /\ UNCHANGED <<roads, crashes, cfg, summary, storeVars, webVars, kmeansVars>>

\* run_pipeline.py: summary = road_summary(roads, crash_assign)
RoadSummary ==
    /\ apc \in {"assigned", "handmade"}
    /\ summary' = road_summary(roads, assign)
    /\ apc' = IF apc = "assigned" THEN "done" ELSE "handdone"
    /\ UNCHANGED <<roads, crashes, cfg, assign, storeVars, webVars, kmeansVars>>

NextAnalysis == NearestRoad \/ HandAssign \/ RoadSummary

SpecAnalysis == InitAnalysis /\ [][NextAnalysis]_vars

-----------------------------------------------------------------------------
(* kmeans_hotspots step by step: the draw, the ten rounds, the stats *)

MaxPts == 3
MaxK == 4

PointRow(sev, g) == [severity |-> sev, hour |-> 8, geometry |-> g]
PointPool ==
    { PointRow(1, Pt(0, 0)), PointRow(3, Pt(2, 0)), PointRow(5, Pt(10, 0)),
      PointRow(4, NoGeom) }

InitKMeans ==
    /\ StoreInit /\ WebOff /\ AnalysisOff
    /\ kin \in [pts : SeqsUpTo(PointPool, MaxPts), k : 0..MaxK]
    /\ centroids = <<>> /\ labels = <<>> /\ round = 0 /\ kout = <<>>
    /\ kpc = "start"

\* nyc.py:75-80: no rows, or no row with a geometry
KEmpty ==
    /\ kpc = "start"
    /\ kin.pts = <<>> \/ NotNa(kin.pts) = <<>>
    /\ kout' = <<>>
    /\ kpc' = "done"
    /\ UNCHANGED <<kin, centroids, labels, round, storeVars, webVars, analysisVars>>

\* nyc.py:84-88 with no centroid to draw: the call ends in a ValueError
KRaise ==
    /\ kpc = "start"
    /\ KMeansRaises(kin.pts, kin.k)
    /\ kpc' = "raised"
    /\ UNCHANGED <<kin, centroids, labels, round, kout, storeVars, webVars, analysisVars>>

\* nyc.py:81-84: X and the draw of the initial centroids
KInit ==
    /\ kpc = "start"
    /\ NotNa(kin.pts) # <<>>
    /\ ~KMeansRaises(kin.pts, kin.k)
    /\ centroids' \in InitCentroids(kin.pts, kin.k)
    /\ kpc' = "loop"
    /\ UNCHANGED <<kin, labels, round, kout, storeVars, webVars, analysisVars>>

\* nyc.py:85-93: one round, assign then update
KRound ==
    /\ kpc = "loop"
    /\ round < Rounds
    /\ labels' = Assign(Coords(NotNa(kin.pts)), centroids)
    /\ centroids' = Update(Coords(NotNa(kin.pts)), centroids, labels')
    /\ round' = round + 1
    /\ UNCHANGED <<kin, kout, kpc, storeVars, webVars, analysisVars>>

\* nyc.py:94-108: the stats of the clusters that have members, sorted by n
KBuild ==
    /\ kpc = "loop"
    /\ round = Rounds
    /\ kout' \in SortByN(StatsFrom(NotNa(kin.pts), centroids, labels, 1))
    /\ kpc' = "done"
    /\ UNCHANGED <<kin, centroids, labels, round, storeVars, webVars, analysisVars>>

NextKMeans == KEmpty \/ KRaise \/ KInit \/ KRound \/ KBuild

SpecKMeans == InitKMeans /\ [][NextKMeans]_vars

-----------------------------------------------------------------------------
(* Properties of the store under refreshes (SpecRefresh) *)

\* C1: every read of the store, under any interleaving of refreshes and reads,
\* returns the rows of one complete record set: the store as it was when no
\* refresh was under way, or the store that one refresh of the current busy
\* period builds; never the emptied store in between, never rows of two refreshes.
C1_ReadsSeeCompleteSets ==
    [][\A p \in Procs :
          (pc[p] = "ready" /\ pc'[p] = "queried")
              => \E S \in legit : rows'[p] \in SelectClipped(S, req[p])]_vars

\* C2: in every committed state of the store the record table and the index hold
\* the same crash_ids (one index entry per record, crash_id being the key of
\* both), and each entry's box contains the geometry stored for its record.
C2_IndexMatchesRecords ==
    /\ DOMAIN nyc_crashes = DOMAIN rtree_nyc_crashes
    /\ \A i \in DOMAIN nyc_crashes :
          /\ rtree_nyc_crashes[i].minx <= nyc_crashes[i].wkt.x
          /\ nyc_crashes[i].wkt.x <= rtree_nyc_crashes[i].maxx
          /\ rtree_nyc_crashes[i].miny <= nyc_crashes[i].wkt.y
          /\ nyc_crashes[i].wkt.y <= rtree_nyc_crashes[i].maxy

\* C2 witness: a second refresh has ingested a frame that names crash 1 twice, at
\* two places; the store holds the later place
C2_Witness ==
    \E p \in Procs :
        /\ pc[p] = "ready" /\ req[p].refresh /\ nreq >= 2
        /\ Len(gdf[p].data) = 2
        /\ gdf[p].data[1].crash_id = 1 /\ gdf[p].data[2].crash_id = 1
        /\ gdf[p].data[1].x # gdf[p].data[2].x
        /\ DOMAIN nyc_crashes = {1} /\ DOMAIN rtree_nyc_crashes = {1}
        /\ nyc_crashes[1].wkt.x = WktRound(gdf[p].data[2].x)
        /\ rtree_nyc_crashes[1].minx < rtree_nyc_crashes[1].maxx


-----------------------------------------------------------------------------
(* Properties of nearest_road and road_summary (SpecAnalysis) *)

Joined == apc \in {"assigned", "done"}
Summarised == apc \in {"done", "handdone"}
RowsOfCrash(c) == {k \in 1..Len(assign) : assign[k].crash_id = c.crash_id}
Distances(c) == {Dist2(c, roads[j]) : j \in 1..Len(roads)}

\* C3: nearest_road returns exactly one row per input event, in the order of the
\* events, and where several roads lie at the same least distance within the
\* radius the single row names the first of them in the order of the roads frame.
C3_OneRowPerEvent ==
    Joined =>
        /\ Len(assign) = Len(crashes)
        /\ \A i \in 1..Len(assign) :
              /\ assign[i].crash_id = crashes[i].crash_id
              /\ assign[i].road_id # NaN =>
                    \E j \in 1..Len(roads) :
                        /\ roads[j].road_id = assign[i].road_id
                        /\ \A h \in 1..Len(roads) :
                              \/ Dist2(crashes[i], roads[j]) < Dist2(crashes[i], roads[h])
                              \/ Dist2(crashes[i], roads[j]) = Dist2(crashes[i], roads[h]) /\ j <= h

\* C4: an event is assigned if and only if its least distance to a road is at most
\* the search radius; an assigned row names a road at that least distance and
\* carries that distance, which is at most the radius; an event farther than the
\* radius from every road, or joined to no roads at all, has a row with a null
\* road id and a null distance (distances are kept as their squares).
C4_AssignedIffWithinRadius ==
    Joined =>
        \A i \in 1..Len(crashes) :
            LET c == crashes[i]
                near == \E d \in Distances(c) : d <= cfg * cfg
            IN /\ RowsOfCrash(c) # {}
               /\ near <=> \E k \in RowsOfCrash(c) : assign[k].road_id # NaN
               /\ \A k \in RowsOfCrash(c) :
                     IF near
                     THEN /\ assign[k].dist_m2 <= cfg * cfg
                          /\ \A d \in Distances(c) : assign[k].dist_m2 <= d
                          /\ \E j \in 1..Len(roads) :
                                /\ roads[j].road_id = assign[k].road_id
                                /\ Dist2(c, roads[j]) = assign[k].dist_m2
                     ELSE assign[k].road_id = NaN /\ assign[k].dist_m2 = NaN

\* C4 witness: with roads present, one event lies at exactly the search radius and
\* is assigned at that distance, and another lies beyond it and has no road.
C4_Witness ==
    /\ apc = "assigned"
    /\ roads # <<>>
    /\ \E k \in 1..Len(assign) :
          assign[k].road_id # NaN /\ assign[k].dist_m2 = cfg * cfg
    /\ \E k \in 1..Len(assign) : assign[k].road_id = NaN

\* C5: whatever the assignment frame holds (nothing, rows without a road, rows of
\* roads that are not in the roads frame), road_summary returns one row per road
\* of the roads frame, in the same number and order.
C5_OneRowPerFeature ==
    Summarised =>
        /\ Len(summary) = Len(roads)
        /\ \A i \in 1..Len(roads) : summary[i].road_id = roads[i].road_id

\* C5 witness: two roads summarised against a frame that holds a row without a
\* road and a row of a road that does not exist, so that no road has a group.
C5_Witness ==
    /\ apc = "handdone"
    /\ Len(roads) = 2
    /\ \E k \in 1..Len(assign) : assign[k].road_id = NaN
    /\ \E k \in 1..Len(assign) :
          /\ assign[k].road_id # NaN
          /\ \A j \in 1..Len(roads) : roads[j].road_id # assign[k].road_id

\* C6: every road with length_m = 0 has crashes_per_km = 0, sev_per_km = 0 and
\* risk_score = 0 in the summary, with no assigned events as with some.
C6_ZeroLengthRatesAreZero ==
    Summarised =>
        \A i \in 1..Len(summary) :
            summary[i].length_m = 0 =>
                /\ summary[i].crashes_per_km = Flt(0)
                /\ summary[i].sev_per_km = Flt(0)
                /\ summary[i].risk_score = Flt(0)

\* C7: for every road the summary reports n_crashes as the number of assignment
\* rows that name it and sev_sum as the sum of their severities (rows without a
\* road count for none, a road without rows gets 0 and 0); for a road of positive
\* length each per-km value is the total divided by length_m / 1000 and
\* risk_score = 0.6 * sev_per_km + 0.4 * crashes_per_km (values in thousandths).
C7_CountsSumsAndRisk ==
    Summarised =>
        \A i \in 1..Len(roads) :
            LET named == {k \in 1..Len(assign) : assign[k].road_id = roads[i].road_id}
                sev == SumOver(named, [k \in named |-> assign[k].severity])
                row == summary[i]
            IN /\ row.n_crashes = Cardinality(named)
               /\ row.sev_sum = sev
               /\ roads[i].length_m > 0 =>
                     /\ row.crashes_per_km.kind = "num"
                     /\ row.crashes_per_km.v * roads[i].length_m = Cardinality(named) * 1000 * 1000
                     /\ row.sev_per_km.kind = "num"
                     /\ row.sev_per_km.v * roads[i].length_m = sev * 1000 * 1000
                     /\ row.risk_score.kind = "num"
                     /\ row.risk_score.v * 10 = 6 * row.sev_per_km.v + 4 * row.crashes_per_km.v

\* C7 witness: one road of 1000 m along y = 0 and events at (500,10), (500,90) and
\* (9999,9999) joined within 80 m: the road has 1 crash, severity sum 3, 1.0
\* crashes per km, 3.0 severity per km and risk score 2.2.
C7_Witness ==
    /\ apc = "done"
    /\ cfg = 80
    /\ Len(roads) = 1 /\ roads[1].length_m = 1000
    /\ Len(crashes) = 3
    /\ \E k \in 1..Len(assign) : assign[k].road_id = NaN
    /\ summary[1].n_crashes = 1
    /\ summary[1].sev_sum = 3
    /\ summary[1].crashes_per_km = Flt(1000)
    /\ summary[1].sev_per_km = Flt(3000)
    /\ summary[1].risk_score = Flt(2200)

-----------------------------------------------------------------------------
(* Properties of the window queries and of input checking (SpecWindow) *)

IsWindow(r) == r.endpoint \in {"timeseries", "summary"}

\* C8: in nyc_timeseries and nyc_summary, bbox mode and point mode alike, the rows
\* that are counted are rows the index query returned for the shape's bounding box,
\* and the stored geometry of each of them passes the exact intersection test with
\* the query shape; the totals sent count no other row.
C8_CountedPassBothPhases ==
    \A p \in Procs :
        /\ (IsWindow(req[p]) /\ pc[p] = "filtered") =>
              LET f == GeomFilter(req[p])
              IN /\ hits[p] \subseteq rows[p]
                 /\ \A c \in rows[p] :
                       /\ c.crash_id \in DOMAIN rtree_nyc_crashes
                       /\ rtree_nyc_crashes[c.crash_id].minx <= f.xmax
                       /\ rtree_nyc_crashes[c.crash_id].maxx >= f.xmin
                       /\ rtree_nyc_crashes[c.crash_id].miny <= f.ymax
                       /\ rtree_nyc_crashes[c.crash_id].maxy >= f.ymin
                 /\ \A c \in hits[p] : Intersects(f, c.wkt)
        /\ (IsWindow(req[p]) /\ pc[p] = "done" /\ resp[p].status = 200) =>
              /\ resp[p].body.total <= Cardinality(hits[p])
              /\ req[p].endpoint = "summary" => resp[p].body.total = Cardinality(hits[p])

\* C8 witness: a point query whose candidates hold a point inside the circle, which
\* is counted, and a point in the bounding square outside the circle, which is not
C8_Witness ==
    \E p \in Procs :
        /\ IsWindow(req[p]) /\ pc[p] = "filtered" /\ req[p].mode = "point"
        /\ hits[p] # {}
        /\ \E c \in rows[p] \ hits[p] :
              LET f == GeomFilter(req[p])
              IN /\ f.xmin <= c.wkt.x /\ c.wkt.x <= f.xmax
                 /\ f.ymin <= c.wkt.y /\ c.wkt.y <= f.ymax
                 /\ (c.wkt.x - f.cx) * (c.wkt.x - f.cx)
                      + (c.wkt.y - f.cy) * (c.wkt.y - f.cy) > f.r * f.r

\* a query shape that is malformed: unknown mode, bbox missing or unparsable,
\* lon or lat missing or unparsable, radius unparsable (a missing radius_m takes
\* the documented default)
Malformed(r) ==
    \/ r.mode \notin {"bbox", "point"}
    \/ r.mode = "bbox" /\ r.bbox.t # "num"
    \/ r.mode = "point" /\ (r.lon.t # "num" \/ r.lat.t # "num" \/ r.radius_m.t = "bad")

\* a radius below 0 or a cluster count k of 0 or less
OutOfRange(r) ==
    \/ IsWindow(r) /\ r.mode = "point" /\ r.radius_m.t = "num" /\ r.radius_m.v < 0
    \/ r.endpoint = "hotspots" /\ r.k.t = "num" /\ r.k.v <= 0

\* C9: a request with a malformed query shape, a radius below 0 or k <= 0 is
\* answered with an error, and its handler never refreshes, reads or filters the
\* store: it never stands after the fetch, the clear, the SELECT or the exact test.
C9_InvalidRejectedBeforeStore ==
    \A p \in Procs :
        ((IsWindow(req[p]) /\ Malformed(req[p])) \/ OutOfRange(req[p])) =>
            /\ pc[p] \notin {"fetched", "cleared", "queried", "filtered"}
            /\ pc[p] = "done" => resp[p].status >= 400

-----------------------------------------------------------------------------
(* Properties of kmeans_hotspots (SpecKMeans) *)

\* C10: on a frame without rows, or whose geometries are all null, kmeans_hotspots
\* returns an empty frame and does not raise; on a frame with n >= 1 points and
\* k >= 1 it does not raise and returns at most min(k, n) clusters.
C10_AtMostMinKNClusters ==
    LET n == Len(NotNa(kin.pts))
    IN /\ n = 0 => kpc # "raised" /\ (kpc = "done" => kout = <<>>)
       /\ (n >= 1 /\ kin.k >= 1) =>
             /\ kpc # "raised"
             /\ kpc = "done" => Len(kout) <= (IF kin.k <= n THEN kin.k ELSE n)

\* C10 witness: k is greater than the number of points, a row without geometry was
\* dropped, and the result has one cluster per point.
C10_Witness ==
    /\ kpc = "done"
    /\ Len(NotNa(kin.pts)) = 2
    /\ Len(kin.pts) = 3
    /\ kin.k > 2
    /\ Len(kout) = 2

\* C11: the clusters of the result are in descending order of their member count,
\* and clusters of equal member count are in ascending order of centroid index.
C11_OrderedByCountThenIndex ==
    kpc = "done" =>
        \A i, j \in 1..Len(kout) :
            i < j => \/ kout[i].n > kout[j].n
                     \/ kout[i].n = kout[j].n /\ kout[i].cluster < kout[j].cluster

-----------------------------------------------------------------------------
(* Properties of the aggregates of the window queries (SpecAggregate) *)

\* the records of the cache whose stored geometry meets the query shape of p
ExactFiltered(p) ==
    {c \in {JoinRow(Store, i) : i \in DOMAIN nyc_crashes} :
        Intersects(GeomFilter(req[p]), c.wkt)}

Answered(p, e) == pc[p] = "done" /\ req[p].endpoint = e /\ resp[p].status = 200

\* the five buckets, their counts and the total of a summary response
HistogramIsExact(p) ==
    LET body == resp[p].body
        of(sev) == {c \in ExactFiltered(p) : c.severity = sev}
    IN /\ DOMAIN body.severity_hist = 1..5
       /\ \A sev \in 1..5 : body.severity_hist[sev] = Cardinality(of(sev))
       /\ body.total = body.severity_hist[1] + body.severity_hist[2] + body.severity_hist[3]
                          + body.severity_hist[4] + body.severity_hist[5]

SeveritySum(p) ==
    SumOver(ExactFiltered(p), [c \in ExactFiltered(p) |-> c.severity])

\* C12 as stated: five buckets 1..5 always, each counting the exact-filtered
\* records of its severity, total the sum of the buckets, and avg_severity equal to
\* the severity sum divided by total, or 0 when total is 0 (avg in hundredths).
C12_HistogramAndExactAverage ==
    \A p \in Procs :
        Answered(p, "summary") =>
            /\ HistogramIsExact(p)
            /\ IF resp[p].body.total = 0 THEN resp[p].body.avg_severity = 0
               ELSE resp[p].body.avg_severity * resp[p].body.total = 100 * SeveritySum(p)

\* C12 amended: as above, but avg_severity is the severity sum divided by total
\* rounded to two decimals: it is within half a hundredth of the quotient.
C12_HistogramAndRoundedAverage ==
    \A p \in Procs :
        Answered(p, "summary") =>
            /\ HistogramIsExact(p)
            /\ IF resp[p].body.total = 0 THEN resp[p].body.avg_severity = 0
               ELSE 2 * Abs(resp[p].body.avg_severity * resp[p].body.total - 100 * SeveritySum(p))
                        <= resp[p].body.total

\* C12 witness: a summary of three records of severities 5, 1 and 2: buckets 3 and
\* 4 are present with 0, the total is 3 and the average 8/3 is sent as 2.67.
C12_Witness ==
    \E p \in Procs :
        /\ Answered(p, "summary")
        /\ resp[p].body.total = 3
        /\ resp[p].body.severity_hist[3] = 0 /\ resp[p].body.severity_hist[4] = 0
        /\ SeveritySum(p) = 8
        /\ resp[p].body.avg_severity = 267

\* C13: a timeseries response has exactly 30 buckets, one per consecutive day
\* ending today, in ascending order of date; each bucket counts the exact-filtered
\* records of its date, so a record without a date or with a date outside the
\* window is in no bucket, and total is the sum of the 30 counts.
C13_ThirtyDailyBuckets ==
    \A p \in Procs :
        Answered(p, "timeseries") =>
            LET series == resp[p].body.series
                inWindow == {c \in ExactFiltered(p) :
                               /\ c.crash_date.kind = "iso"
                               /\ c.crash_date.day > Today - WindowDays
                               /\ c.crash_date.day <= Today}
            IN /\ Len(series) = WindowDays
               /\ \A i \in 1..Len(series) :
                     /\ series[i].date = IsoFormat(Today - WindowDays + i)
                     /\ series[i].count =
                           Cardinality({c \in ExactFiltered(p) : c.crash_date = series[i].date})
               /\ resp[p].body.total =
                     SumOver(1..Len(series), [i \in 1..Len(series) |-> series[i].count])
               /\ resp[p].body.total = Cardinality(inWindow)

\* C13 witness: three records meet the query shape, one of today, one of the first
\* day of the window and one that has no date or is older than the window: the
\* last and the first bucket hold 1 each and the total is 2.
C13_Witness ==
    \E p \in Procs :
        /\ Answered(p, "timeseries")
        /\ Cardinality(ExactFiltered(p)) = 3
        /\ resp[p].body.series[WindowDays].count = 1
        /\ resp[p].body.series[1].count = 1
        /\ resp[p].body.total = 2

-----------------------------------------------------------------------------
(* Properties of the rounds of kmeans_hotspots (SpecKMeans) *)

\* point pt is strictly nearer to centroid a than to centroid b, by squared
\* Euclidean distance (a centroid is the point (x/d, y/d))
Nearer(pt, a, b) ==
    ((pt.x * a.d - a.x) * (pt.x * a.d - a.x) + (pt.y * a.d - a.y) * (pt.y * a.d - a.y)) * b.d * b.d
        < ((pt.x * b.d - b.x) * (pt.x * b.d - b.x) + (pt.y * b.d - b.y) * (pt.y * b.d - b.y)) * a.d * a.d

\* C14: the stats are built after exactly 10 rounds, whether or not the centroids
\* still move; a round labels every point with the centroid at the least squared
\* distance, the lowest index among equals, then puts every centroid that was
\* given points at the mean of its points and leaves every other where it was.
C14_TenRoundsOfAssignAndUpdate ==
    [][LET X == Coords(NotNa(kin.pts))
       IN /\ (kpc = "loop" /\ kpc' = "done") => round = 10
          /\ (kpc = "loop" /\ round' # round) =>
                /\ round < 10 /\ round' = round + 1
                /\ DOMAIN labels' = 1..Len(X)
                /\ \A j \in 1..Len(X) :
                      /\ labels'[j] \in 1..Len(centroids)
                      /\ \A i \in 1..Len(centroids) :
                            /\ ~Nearer(X[j], centroids[i], centroids[labels'[j]])
                            /\ i < labels'[j] => Nearer(X[j], centroids[labels'[j]], centroids[i])
                /\ Len(centroids') = Len(centroids)
                /\ \A i \in 1..Len(centroids) :
                      LET mine == {j \in 1..Len(X) : labels'[j] = i}
                      IN IF mine = {} THEN centroids'[i] = centroids[i]
                         ELSE /\ centroids'[i].d > 0
                              /\ centroids'[i].x * Cardinality(mine)
                                    = centroids'[i].d * SumOver(mine, [j \in mine |-> X[j].x])
                              /\ centroids'[i].y * Cardinality(mine)
                                    = centroids'[i].d * SumOver(mine, [j \in mine |-> X[j].y])]_vars

\* C14 witness: after the first round of k = 2 on three points of which two are
\* equal and were drawn as the centroids: all points went to centroid 0 (the tie of
\* the equal centroids), which is now their mean, in thirds, and centroid 1, which
\* got no point, is where it was drawn.
C14_Witness ==
    /\ kpc = "loop"
    /\ round = 1
    /\ kin.k = 2
    /\ labels = <<1, 1, 1>>
    /\ centroids[1].d = 3
    /\ centroids[2].d = 1
    /\ \E j \in 1..Len(kin.pts) : kin.pts[j].geometry = [x |-> centroids[2].x, y |-> centroids[2].y, null |-> FALSE]

-----------------------------------------------------------------------------
(* Properties of a refresh that fails (SpecWindow) *)

\* C15: a refresh that fails, at the fetch or in ingest_nyc_crashes (as on the frame
\* without crash_date that to_geodataframe builds from an empty fetch), leaves the
\* record table and the index as they were: none of its steps changes them.
C15_FailedRefreshKeepsCache ==
    [][\A p \in WindowProcs :
          LET fails == \/ pc[p] = "refresh" /\ pc'[p] = "done"
                       \/ pc[p] \in {"fetched", "cleared"} /\ IngestRaises(gdf[p])
          IN (fails /\ pc'[p] # pc[p]) =>
                nyc_crashes' = nyc_crashes /\ rtree_nyc_crashes' = rtree_nyc_crashes]_vars

=============================================================================
